---------------------------- MODULE Spec2Model ----------------------------
(***************************************************************************)
(* A model of the expression interpreter: tokenize (src/src/lexer.rs),     *)
(* Parser::parse_expr (src/src/parser.rs), the Display of the tree         *)
(* (src/src/ast.rs), eval (src/src/eval.rs) and the read loop of main      *)
(* (src/src/main.rs).                                                      *)
(*                                                                         *)
(* The three stages are pure functions; each is an operator computed the   *)
(* way the code computes it (a `while` loop is a RECURSIVE operator that   *)
(* carries the loop's variables).  A specification draws an input from a   *)
(* bounded set and its actions apply the stages.                           *)
(*                                                                         *)
(* f64 is modelled by exact rationals [num, den] in lowest terms: the      *)
(* rounding of f64, its overflow to infinity and NaN are outside the       *)
(* model.  -0.0 compares equal to 0.0 in the code and is the rational 0.   *)
(* A character is a one-character string; a text is a sequence of them.    *)
(***************************************************************************)
EXTENDS Integers, Sequences, FiniteSets, TLC

VARIABLES
    pc,        \* the stage the pipeline is at
    input,     \* the text handed to tokenize (a sequence of characters)
    lexed,     \* the Result of tokenize
    parsed,    \* the Result of Parser::parse_expr, with the cursor self.pos
    ast,       \* the tree handed to eval
    value,     \* the Result of eval
    source,    \* the tree a round trip started from
    shown,     \* the former's Display text
    stdin,     \* the lines main has not read yet
    stdout     \* the texts main has printed

vars == <<pc, input, lexed, parsed, ast, value, source, shown, stdin, stdout>>

None == [none |-> TRUE]

-----------------------------------------------------------------------------
(* Bounds of the model *)

\* longest text handed to tokenize
MaxChars == 5
\* longest token sequence over ParseAlphabet handed to the parser
MaxTokens == 5
\* most operators in a chain `a op b op c ...` of one tier handed to the parser
MaxChain == 3
\* the number literals of the trees handed to eval are the halves k/2 with
\* -MaxHalves <= k <= MaxHalves
MaxHalves == 4
\* most lines in the input of main
MaxLines == 2

-----------------------------------------------------------------------------
(* f64 as exact rationals *)

Abs(x) == IF x < 0 THEN -x ELSE x

RECURSIVE Gcd(_, _)
Gcd(a, b) == IF b = 0 THEN a ELSE Gcd(b, a % b)

\* the rational n/d (d # 0) in lowest terms with a positive denominator
Rat(n, d) ==
    LET g == Gcd(Abs(n), Abs(d))
        s == IF d < 0 THEN -1 ELSE 1
    IN  [num |-> (s * n) \div g, den |-> (s * d) \div g]

Int2Rat(n) == [num |-> n, den |-> 1]
RAdd(a, b) == Rat(a.num * b.den + b.num * a.den, a.den * b.den)
RSub(a, b) == Rat(a.num * b.den - b.num * a.den, a.den * b.den)
RMul(a, b) == Rat(a.num * b.num, a.den * b.den)
\* only used with b # 0: eval rejects a zero divisor before dividing
RDiv(a, b) == Rat(a.num * b.den, a.den * b.num)
RNeg(a)    == [num |-> -a.num, den |-> a.den]
RLt(a, b)  == a.num * b.den < b.num * a.den
RLe(a, b)  == a.num * b.den <= b.num * a.den
Zero == Int2Rat(0)
One  == Int2Rat(1)

-----------------------------------------------------------------------------
(* Results: Ok(payload) or Err(message) *)

Err(e) == [ok |-> FALSE, err |-> e]

\* the messages of the anyhow::bail! calls
ErrBadNumber     == "number parse failed"
ErrBadBoolOp     == "bad bool operator"
ErrSingleEq      == "single '=' is invalid"
ErrUnreachable   == "never reached"
ErrBadChar       == "bad character"
ErrUnmatched     == "unmatched parenthesis"
ErrIllegalExpr   == "illegal expression"
ErrDivByZero     == "division by zero"
ErrUnsupportedUnary  == "unsupported unary operator"
ErrUnsupportedBinary == "unsupported binary operator"

-----------------------------------------------------------------------------
(* Tokens (lexer.rs) *)

NumberTok(n) == [k |-> "Number", n |-> n]
Tok(k)       == [k |-> k]

Plus         == Tok("Plus")
Minus        == Tok("Minus")
Star         == Tok("Star")
Slash        == Tok("Slash")
LParen       == Tok("LParen")
RParen       == Tok("RParen")
Equal        == Tok("Equal")
NotEqual     == Tok("NotEqual")
Greater      == Tok("Greater")
GreaterEqual == Tok("GreaterEqual")
Less         == Tok("Less")
LessEqual    == Tok("LessEqual")
And          == Tok("And")
Or           == Tok("Or")
Not          == Tok("Not")

\* impl Display for Token, for the tokens without a payload
TokenText(t) ==
    CASE t = Plus         -> <<"+">>
      [] t = Minus        -> <<"-">>
      [] t = Star         -> <<"*">>
      [] t = Slash        -> <<"/">>
      [] t = LParen       -> <<"(">>
      [] t = RParen       -> <<")">>
      [] t = Equal        -> <<"=", "=">>
      [] t = NotEqual     -> <<"!", "=">>
      [] t = Greater      -> <<">">>
      [] t = GreaterEqual -> <<">", "=">>
      [] t = Less         -> <<"<">>
      [] t = LessEqual    -> <<"<", "=">>
      [] t = And          -> <<"&", "&">>
      [] t = Or           -> <<"|", "|">>
      [] t = Not          -> <<"!">>

-----------------------------------------------------------------------------
(* tokenize (lexer.rs) *)

AsciiDigits == {"0", "1", "2", "3", "4", "5", "6", "7", "8", "9"}

\* a character that char::is_numeric accepts and '0'..='9' does not
SuperscriptTwo == "U+00B2"

\* char::is_numeric
IsNumeric(d) == d \in AsciiDigits \cup {SuperscriptTwo}

DigitVal(c) ==
    CASE c = "0" -> 0 [] c = "1" -> 1 [] c = "2" -> 2 [] c = "3" -> 3
      [] c = "4" -> 4 [] c = "5" -> 5 [] c = "6" -> 6 [] c = "7" -> 7
      [] c = "8" -> 8 [] c = "9" -> 9

RECURSIVE Pow10(_)
Pow10(k) == IF k = 0 THEN 1 ELSE 10 * Pow10(k - 1)

RECURSIVE DigitsValue(_, _)
DigitsValue(s, acc) ==
    IF s = <<>> THEN acc ELSE DigitsValue(Tail(s), 10 * acc + DigitVal(Head(s)))

\* str::parse::<f64> on a text of numeric characters and dots: it accepts
\* digits with at most one dot and at least one digit ("1", "1.", ".5", "1.5")
ParseF64(number) ==
    LET dots   == {i \in 1..Len(number) : number[i] = "."}
        digits == SelectSeq(number, LAMBDA c : c # ".")
    IN  IF Cardinality(dots) > 1 \/ digits = <<>>
           \/ \E i \in 1..Len(digits) : digits[i] \notin AsciiDigits
        THEN Err(ErrBadNumber)
        ELSE LET frac == IF dots = {} THEN 0
                         ELSE Len(number) - (CHOOSE i \in dots : TRUE)
             IN  [ok |-> TRUE, n |-> Rat(DigitsValue(digits, 0), Pow10(frac))]

\* the inner loop of the number arm: the index after the last character of
\* the run of numeric characters and dots that starts at i
RECURSIVE ScanNumber(_, _)
ScanNumber(chars, i) ==
    IF i <= Len(chars) /\ (IsNumeric(chars[i]) \/ chars[i] = ".")
    THEN ScanNumber(chars, i + 1)
    ELSE i

\* what chars.peek() gives at the end of the text
NoChar == "EOF"

\* chars.peek() with the iterator at index i
Peek(chars, i) == IF i <= Len(chars) THEN chars[i] ELSE NoChar

\* an arm of tokenize that pushes `token` and consumes n characters
Push(token, n) == [ok |-> TRUE, token |-> token, n |-> n]

\* the '&' | '|' arm: ch is consumed, then the next character is peeked
BoolOpArm(ch, next) ==
    CASE ch = "&" /\ next = "&" -> Push(And, 2)
      [] ch = "|" /\ next = "|" -> Push(Or, 2)
      [] OTHER -> Err(ErrBadBoolOp)

\* the '=' | '!' arm with the character after a bare '!' consumed as well
EqualBangArmEatsNext(ch, next) ==
    CASE ch = "=" /\ next = "=" -> Push(Equal, 2)
      [] ch = "!" /\ next = "=" -> Push(NotEqual, 2)
      [] ch = "=" /\ next # "=" -> Err(ErrSingleEq)
      [] ch = "!" /\ next # "=" -> Push(Not, 2)

\* the '=' | '!' arm
EqualBangArm(ch, next) ==
    CASE ch = "=" /\ next = "=" -> Push(Equal, 2)
      [] ch = "!" /\ next = "=" -> Push(NotEqual, 2)
      [] ch = "=" /\ next # "=" -> Err(ErrSingleEq)
      [] ch = "!" /\ next # "=" -> Push(Not, 1)
      [] OTHER -> Err(ErrUnreachable)

\* the '<' | '>' arm
AngleArm(ch, next) ==
    CASE ch = "<" /\ next = "=" -> Push(LessEqual, 2)
      [] ch = ">" /\ next = "=" -> Push(GreaterEqual, 2)
      [] ch = "<" /\ next # "=" -> Push(Less, 1)
      [] ch = ">" /\ next # "=" -> Push(Greater, 1)
      [] OTHER -> Err(ErrUnreachable)

\* the number arm: the run of numeric characters and dots from i parsed
NumberArm(chars, i) ==
    LET j == ScanNumber(chars, i)
        n == ParseF64(SubSeq(chars, i, j - 1))
    IN  IF n.ok THEN Push(NumberTok(n.n), j - i) ELSE Err(ErrBadNumber)

\* the `while let Some(&ch) = chars.peek()` loop of tokenize, the iterator at
\* index i and `tokens` pushed so far
RECURSIVE TokenizeLoop(_, _, _)
TokenizeLoop(chars, i, tokens) ==
    IF i > Len(chars) THEN [ok |-> TRUE, tokens |-> tokens]
    ELSE
    LET ch   == chars[i]
        next == Peek(chars, i + 1)
        arm  ==
            CASE ch \in AsciiDigits \cup {"."} -> NumberArm(chars, i)
              [] ch = "+" -> Push(Plus, 1)
              [] ch = "-" -> Push(Minus, 1)
              [] ch = "*" -> Push(Star, 1)
              [] ch = "/" -> Push(Slash, 1)
              [] ch = "(" -> Push(LParen, 1)
              [] ch = ")" -> Push(RParen, 1)
              [] ch \in {"&", "|"} -> BoolOpArm(ch, next)
              [] ch \in {"=", "!"} -> EqualBangArm(ch, next)
              [] ch \in {"<", ">"} -> AngleArm(ch, next)
              [] OTHER -> Err(ErrBadChar)
    IN  IF ch \in {" ", "\t", "\n"} THEN TokenizeLoop(chars, i + 1, tokens)
        ELSE IF arm.ok
             THEN TokenizeLoop(chars, i + arm.n, Append(tokens, arm.token))
             ELSE arm

tokenize(chars) == TokenizeLoop(chars, 1, <<>>)

-----------------------------------------------------------------------------
(* Expr and BinaryOp (ast.rs) *)

NumberExpr(n)          == [e |-> "Number", n |-> n]
UnaryOp(op, expr)      == [e |-> "UnaryOp", op |-> op, expr |-> expr]
BinaryOp(left, op, right) ==
    [e |-> "BinaryOp", left |-> left, op |-> op, right |-> right]

\* enum BinaryOp
BinaryOps == {"Add", "Sub", "Mul", "Div", "Eq", "Neq", "Gt", "Gte", "Lt", "Lte",
              "And", "Or", "Not"}

\* impl TryFrom<&Token> for BinaryOp, on the tokens it maps
TokenToBinaryOp(token) ==
    CASE token = Plus         -> "Add"
      [] token = Minus        -> "Sub"
      [] token = Star         -> "Mul"
      [] token = Slash        -> "Div"
      [] token = Equal        -> "Eq"
      [] token = NotEqual     -> "Neq"
      [] token = Greater      -> "Gt"
      [] token = GreaterEqual -> "Gte"
      [] token = Less         -> "Lt"
      [] token = LessEqual    -> "Lte"
      [] token = And          -> "And"
      [] token = Or           -> "Or"
      [] token = Not          -> "Not"

-----------------------------------------------------------------------------
(* Display of BinaryOp and Expr (ast.rs) *)

\* impl Display for BinaryOp
OpText(op) ==
    CASE op = "Add" -> <<"+">>
      [] op = "Sub" -> <<"-">>
      [] op = "Mul" -> <<"*">>
      [] op = "Div" -> <<"/">>
      [] op = "Eq"  -> <<"=", "=">>
      [] op = "Neq" -> <<"!", "=">>
      [] op = "Gt"  -> <<">">>
      [] op = "Gte" -> <<">", "=">>
      [] op = "Lt"  -> <<"<">>
      [] op = "Lte" -> <<"<", "=">>
      [] op = "And" -> <<"&", "&">>
      [] op = "Or"  -> <<"|", "|">>
      [] op = "Not" -> <<"!">>

DigitChar(d) ==
    CASE d = 0 -> "0" [] d = 1 -> "1" [] d = 2 -> "2" [] d = 3 -> "3"
      [] d = 4 -> "4" [] d = 5 -> "5" [] d = 6 -> "6" [] d = 7 -> "7"
      [] d = 8 -> "8" [] d = 9 -> "9"

\* the decimal digits of a natural number
RECURSIVE NatText(_)
NatText(n) ==
    IF n < 10 THEN <<DigitChar(n)>>
    ELSE NatText(n \div 10) \o <<DigitChar(n % 10)>>

\* the digits after the point of rem/den < 1; f64 prints at most 17
\* significant digits, and every literal of the model's trees ends sooner
RECURSIVE FractionText(_, _, _)
FractionText(rem, den, left) ==
    IF rem = 0 \/ left = 0 THEN <<>>
    ELSE <<DigitChar((10 * rem) \div den)>>
            \o FractionText((10 * rem) % den, den, left - 1)

\* `{}` of an f64: a `-` for a negative number, the integer digits, and the
\* point and the fraction digits unless the number is integral
F64Text(n) ==
    LET a == Abs(n.num)
    IN  (IF n.num < 0 THEN <<"-">> ELSE <<>>)
            \o NatText(a \div n.den)
            \o (IF a % n.den = 0 THEN <<>>
                ELSE <<".">> \o FractionText(a % n.den, n.den, 17))

\* impl Display for Expr
RECURSIVE ExprText(_)
ExprText(expr) ==
    CASE expr.e = "Number"   -> F64Text(expr.n)
      [] expr.e = "UnaryOp"  ->
            <<"(">> \o OpText(expr.op) \o ExprText(expr.expr) \o <<")">>
      [] expr.e = "BinaryOp" ->
            <<"(">> \o ExprText(expr.left) \o <<" ">> \o OpText(expr.op)
                \o <<" ">> \o ExprText(expr.right) \o <<")">>

-----------------------------------------------------------------------------
(* Parser (parser.rs).  self.pos counts the tokens consumed, from 0; the    *)
(* depth field only indents the trace output and is left out.  A parse      *)
(* function is an operator of the tokens and the cursor that gives          *)
(* Ok(node) with the new cursor, or the error.                              *)

NoToken == Tok("None")

\* Parser::current: self.tokens.get(self.pos)
current(tokens, pos) == IF pos < Len(tokens) THEN tokens[pos + 1] ELSE NoToken

ParseOk(node, pos) == [ok |-> TRUE, node |-> node, pos |-> pos]

RECURSIVE parse_expr(_, _)
RECURSIVE parse_cmd(_, _)
RECURSIVE CmdLoop(_, _, _)
RECURSIVE parse_term(_, _)
RECURSIVE TermLoop(_, _, _)
RECURSIVE parse_factor(_, _)
RECURSIVE FactorLoop(_, _, _)
RECURSIVE parse_unary(_, _)
RECURSIVE parse_primary(_, _)

\* parse_expr failing unless every token has been consumed
parse_exprComplete(tokens, pos) ==
    LET res == parse_cmd(tokens, pos)
    IN  IF res.ok /\ res.pos < Len(tokens) THEN Err("trailing tokens") ELSE res

parse_expr(tokens, pos) == parse_cmd(tokens, pos)

\* the `while let Some(token) = self.current()` loop of parse_cmd
CmdLoop(tokens, pos, node) ==
    LET token == current(tokens, pos)
    IN  IF token \in {Equal, NotEqual, Greater, GreaterEqual, Less, LessEqual}
        THEN LET op    == TokenToBinaryOp(token)
                 right == parse_term(tokens, pos + 1)
             IN  IF right.ok
                 THEN CmdLoop(tokens, right.pos, BinaryOp(node, op, right.node))
                 ELSE right
        ELSE ParseOk(node, pos)

parse_cmd(tokens, pos) ==
    LET node == parse_term(tokens, pos)
    IN  IF node.ok THEN CmdLoop(tokens, node.pos, node.node) ELSE node

\* TermLoop recursing into its own tier for the right operand
TermLoopRightAssoc(tokens, pos, node) ==
    LET token == current(tokens, pos)
    IN  IF token \in {Plus, Minus}
        THEN LET op    == IF token = Plus THEN "Add" ELSE "Sub"
                 right == parse_term(tokens, pos + 1)
             IN  IF right.ok
                 THEN ParseOk(BinaryOp(node, op, right.node), right.pos)
                 ELSE right
        ELSE ParseOk(node, pos)

\* the loop of parse_term
TermLoop(tokens, pos, node) ==
    LET token == current(tokens, pos)
    IN  IF token \in {Plus, Minus}
        THEN LET op    == IF token = Plus THEN "Add" ELSE "Sub"
                 right == parse_factor(tokens, pos + 1)
             IN  IF right.ok
                 THEN TermLoop(tokens, right.pos, BinaryOp(node, op, right.node))
                 ELSE right
        ELSE ParseOk(node, pos)

parse_term(tokens, pos) ==
    LET node == parse_factor(tokens, pos)
    IN  IF node.ok THEN TermLoop(tokens, node.pos, node.node) ELSE node

\* FactorLoop with the additive operators folded at the same level
FactorLoopNoPrecedence(tokens, pos, node) ==
    LET token == current(tokens, pos)
    IN  IF token \in {Star, Slash, Plus, Minus}
        THEN LET op    == TokenToBinaryOp(token)
                 right == parse_unary(tokens, pos + 1)
             IN  IF right.ok
                 THEN FactorLoop(tokens, right.pos, BinaryOp(node, op, right.node))
                 ELSE right
        ELSE ParseOk(node, pos)

\* the loop of parse_factor
FactorLoop(tokens, pos, node) ==
    LET token == current(tokens, pos)
    IN  IF token \in {Star, Slash}
        THEN LET op    == IF token = Star THEN "Mul" ELSE "Div"
                 right == parse_unary(tokens, pos + 1)
             IN  IF right.ok
                 THEN FactorLoop(tokens, right.pos, BinaryOp(node, op, right.node))
                 ELSE right
        ELSE ParseOk(node, pos)

parse_factor(tokens, pos) ==
    LET node == parse_unary(tokens, pos)
    IN  IF node.ok THEN FactorLoop(tokens, node.pos, node.node) ELSE node

\* parse_unary taking `*` and `/` as prefix operators too
parse_unaryAnyOperator(tokens, pos) ==
    IF current(tokens, pos) \in {Minus, Plus, Star, Slash}
    THEN LET op   == TokenToBinaryOp(current(tokens, pos))
             expr == parse_primary(tokens, pos + 1)
         IN  IF expr.ok THEN ParseOk(UnaryOp(op, expr.node), expr.pos) ELSE expr
    ELSE parse_primary(tokens, pos)

\* parse_unary with a whole factor, not one primary, as the operand of a sign
parse_unaryOfFactor(tokens, pos) ==
    IF current(tokens, pos) \in {Minus, Plus}
    THEN LET op   == IF current(tokens, pos) = Minus THEN "Sub" ELSE "Add"
             expr == parse_factor(tokens, pos + 1)
         IN  IF expr.ok THEN ParseOk(UnaryOp(op, expr.node), expr.pos) ELSE expr
    ELSE parse_primary(tokens, pos)

\* parse_unary with an arm for the Not token
parse_unaryWithNot(tokens, pos) ==
    IF current(tokens, pos) \in {Minus, Plus, Not}
    THEN LET op   == TokenToBinaryOp(current(tokens, pos))
             expr == parse_primary(tokens, pos + 1)
         IN  IF expr.ok THEN ParseOk(UnaryOp(op, expr.node), expr.pos) ELSE expr
    ELSE parse_primary(tokens, pos)

parse_unary(tokens, pos) ==
    IF current(tokens, pos) \in {Minus, Plus}
    THEN LET op   == IF current(tokens, pos) = Minus THEN "Sub" ELSE "Add"
             expr == parse_primary(tokens, pos + 1)
         IN  IF expr.ok THEN ParseOk(UnaryOp(op, expr.node), expr.pos) ELSE expr
    ELSE parse_primary(tokens, pos)

\* parse_primary eating the token after the enclosed expression unchecked
parse_primaryNoClose(tokens, pos) ==
    LET token == current(tokens, pos)
    IN  CASE token.k = "Number" -> ParseOk(NumberExpr(token.n), pos + 1)
          [] token = LParen ->
                LET expr == parse_expr(tokens, pos + 1)
                IN  IF ~expr.ok THEN expr ELSE ParseOk(expr.node, expr.pos + 1)
          [] OTHER -> Err(ErrIllegalExpr)

\* self.eat() gives current() and moves the cursor to pos + 1
parse_primary(tokens, pos) ==
    LET token == current(tokens, pos)
    IN  CASE token.k = "Number" -> ParseOk(NumberExpr(token.n), pos + 1)
          [] token = LParen ->
                LET expr == parse_expr(tokens, pos + 1)
                IN  IF ~expr.ok THEN expr
                    ELSE IF current(tokens, expr.pos) = RParen
                         THEN ParseOk(expr.node, expr.pos + 1)
                         ELSE Err(ErrUnmatched)
          [] OTHER -> Err(ErrIllegalExpr)

-----------------------------------------------------------------------------
(* Value and eval (eval.rs) *)

NumberVal(n) == [v |-> "Number", n |-> n]
BoolVal(b)   == [v |-> "Bool", b |-> b]

EvalOk(val) == [ok |-> TRUE, val |-> val]

\* impl From<Value> for f64
ToF64(val) == IF val.v = "Number" THEN val.n ELSE IF val.b THEN One ELSE Zero

\* Value::and with every non-zero number counted as true
ValueAndNonZero(l, r) ==
    CASE l.v = "Number" /\ r.v = "Number" -> l.n # Zero /\ r.n # Zero
      [] l.v = "Number" /\ r.v = "Bool"   -> l.n # Zero /\ r.b
      [] l.v = "Bool"   /\ r.v = "Bool"   -> l.b /\ r.b
      [] l.v = "Bool"   /\ r.v = "Number" -> l.b /\ r.n # Zero

\* Value::and
ValueAnd(l, r) ==
    CASE l.v = "Number" /\ r.v = "Number" -> RLt(Zero, l.n) /\ RLt(Zero, r.n)
      [] l.v = "Number" /\ r.v = "Bool"   -> RLt(Zero, l.n) /\ r.b
      [] l.v = "Bool"   /\ r.v = "Bool"   -> l.b /\ r.b
      [] l.v = "Bool"   /\ r.v = "Number" -> l.b /\ RLt(Zero, r.n)

\* Value::or
ValueOr(l, r) ==
    CASE l.v = "Number" /\ r.v = "Number" -> RLt(Zero, l.n) \/ RLt(Zero, r.n)
      [] l.v = "Number" /\ r.v = "Bool"   -> RLt(Zero, l.n) \/ r.b
      [] l.v = "Bool"   /\ r.v = "Bool"   -> l.b \/ r.b
      [] l.v = "Bool"   /\ r.v = "Number" -> l.b \/ RLt(Zero, r.n)

\* #[derive(PartialEq)] on Value: the same variant and the same payload
ValueEq(l, r) == l = r

\* #[derive(PartialOrd)] on Value: the variants are ordered as declared
\* (Number before Bool); within one variant the payloads are compared,
\* false < true
ValueLt(l, r) ==
    CASE l.v = "Number" /\ r.v = "Number" -> RLt(l.n, r.n)
      [] l.v = "Bool"   /\ r.v = "Bool"   -> ~l.b /\ r.b
      [] l.v = "Number" /\ r.v = "Bool"   -> TRUE
      [] l.v = "Bool"   /\ r.v = "Number" -> FALSE

ValueLe(l, r) == ValueLt(l, r) \/ ValueEq(l, r)

\* what f64 division gives for a zero divisor
Infinity == [num |-> 1, den |-> 0]

\* the Div arm with the divisor tested against Number(0.0) only
EvalDivNoFalseCheck(l, r) ==
    IF ValueEq(r, NumberVal(Zero)) THEN Err(ErrDivByZero)
    ELSE IF ToF64(r) = Zero THEN EvalOk(NumberVal(Infinity))
    ELSE EvalOk(NumberVal(RDiv(ToF64(l), ToF64(r))))

\* the BinaryOp::Div arm
EvalDiv(l, r) ==
    IF ValueEq(r, NumberVal(Zero)) \/ ValueEq(r, BoolVal(FALSE))
    THEN Err(ErrDivByZero)
    ELSE EvalOk(NumberVal(RDiv(ToF64(l), ToF64(r))))

\* the `match op` of the BinaryOp arm, both operands evaluated
EvalBinary(l, op, r) ==
    CASE op = "Add" -> EvalOk(NumberVal(RAdd(ToF64(l), ToF64(r))))
      [] op = "Sub" -> EvalOk(NumberVal(RSub(ToF64(l), ToF64(r))))
      [] op = "Mul" -> EvalOk(NumberVal(RMul(ToF64(l), ToF64(r))))
      [] op = "Div" -> EvalDiv(l, r)
      [] op = "Eq"  -> EvalOk(BoolVal(ValueEq(l, r)))
      [] op = "Neq" -> EvalOk(BoolVal(~ValueEq(l, r)))
      [] op = "Gt"  -> EvalOk(BoolVal(ValueLt(r, l)))
      [] op = "Gte" -> EvalOk(BoolVal(ValueLe(r, l)))
      [] op = "Lt"  -> EvalOk(BoolVal(ValueLt(l, r)))
      [] op = "Lte" -> EvalOk(BoolVal(ValueLe(l, r)))
      [] op = "And" -> EvalOk(BoolVal(ValueAnd(l, r)))
      [] op = "Or"  -> EvalOk(BoolVal(ValueOr(l, r)))
      [] OTHER      -> Err(ErrUnsupportedBinary)

\* the `match op` of the UnaryOp arm for Add and Sub, the operand evaluated
EvalSign(op, n) ==
    IF op # "Sub" THEN n
    ELSE IF n.v = "Number" THEN NumberVal(RNeg(n.n)) ELSE BoolVal(~n.b)

RECURSIVE eval(_)

\* eval giving Bool(false) for an And node with a falsy left operand, and
\* Bool(true) for an Or node with a truthy one, the right operand not
\* evaluated
evalShortCircuit(expr) ==
    CASE expr.e = "Number" -> EvalOk(NumberVal(expr.n))
      [] expr.e = "UnaryOp" ->
            CASE expr.op \in {"Add", "Sub"} ->
                    LET n == eval(expr.expr)
                    IN  IF n.ok THEN EvalOk(EvalSign(expr.op, n.val)) ELSE n
              [] expr.op = "Not" ->
                    LET n == eval(expr.expr)
                    IN  IF ~n.ok THEN n
                        ELSE IF n.val.v = "Number"
                             THEN EvalOk(BoolVal(n.val.n = Zero))
                             ELSE EvalOk(BoolVal(~n.val.b))
              [] OTHER -> Err(ErrUnsupportedUnary)
      [] expr.e = "BinaryOp" ->
            LET l == eval(expr.left)
            IN  IF ~l.ok THEN l
                ELSE IF expr.op = "And" /\ ~ValueOr(l.val, BoolVal(FALSE))
                     THEN EvalOk(BoolVal(FALSE))
                ELSE IF expr.op = "Or" /\ ValueOr(l.val, BoolVal(FALSE))
                     THEN EvalOk(BoolVal(TRUE))
                ELSE LET r == eval(expr.right)
                     IN  IF ~r.ok THEN r
                         ELSE EvalBinary(l.val, expr.op, r.val)

eval(expr) ==
    CASE expr.e = "Number" -> EvalOk(NumberVal(expr.n))
      [] expr.e = "UnaryOp" ->
            CASE expr.op \in {"Add", "Sub"} ->
                    LET n == eval(expr.expr)
                    IN  IF n.ok THEN EvalOk(EvalSign(expr.op, n.val)) ELSE n
              [] expr.op = "Not" ->
                    LET n == eval(expr.expr)
                    IN  IF ~n.ok THEN n
                        ELSE IF n.val.v = "Number"
                             THEN EvalOk(BoolVal(n.val.n = Zero))
                             ELSE EvalOk(BoolVal(~n.val.b))
              [] OTHER -> Err(ErrUnsupportedUnary)
      [] expr.e = "BinaryOp" ->
            LET l == eval(expr.left)
            IN  IF ~l.ok THEN l
                ELSE LET r == eval(expr.right)
                     IN  IF ~r.ok THEN r
                         ELSE EvalBinary(l.val, expr.op, r.val)

-----------------------------------------------------------------------------
(* The loop of main (main.rs): the prompt and read_line, tokenize,           *)
(* Parser::new(tokens).parse_expr and the println! of the tree, eval, the    *)
(* println! of the result.  Each `?` makes main return the error: pc is     *)
(* then "failed" and the process has ended.                                  *)

Prompt == <<">", ">", ">", " ">>

\* impl Display for Value, for a number with a finite decimal expansion
ValueText(val) ==
    IF val.v = "Number" THEN F64Text(val.n)
    ELSE IF val.b THEN <<"t", "r", "u", "e">> ELSE <<"f", "a", "l", "s", "e">>

\* print!(">>> ") and read_line into a new String: the next line with its
\* newline, or nothing at the end of the input (read_line gives Ok(0))
ReadLine ==
    /\ pc = "read"
    /\ stdout' = Append(stdout, Prompt)
    /\ input' = IF stdin = <<>> THEN <<>> ELSE Head(stdin)
    /\ stdin' = IF stdin = <<>> THEN <<>> ELSE Tail(stdin)
    /\ lexed' = None
    /\ parsed' = None
    /\ ast' = None
    /\ value' = None
    /\ pc' = "tokenize"
    /\ UNCHANGED <<source, shown>>

Tokenize ==
    /\ pc = "tokenize"
    /\ lexed' = tokenize(input)
    /\ pc' = IF lexed'.ok THEN "parse" ELSE "failed"
    /\ UNCHANGED <<input, parsed, ast, value, source, shown, stdin, stdout>>

Parse ==
    /\ pc = "parse"
    /\ parsed' = parse_expr(lexed.tokens, 0)
    /\ ast' = IF parsed'.ok THEN parsed'.node ELSE ast
    /\ stdout' = IF parsed'.ok THEN Append(stdout, ExprText(parsed'.node))
                 ELSE stdout
    /\ pc' = IF parsed'.ok THEN "eval" ELSE "failed"
    /\ UNCHANGED <<input, lexed, value, source, shown, stdin>>

Eval ==
    /\ pc = "eval"
    /\ value' = eval(ast)
    /\ pc' = IF value'.ok THEN "done" ELSE "failed"
    /\ UNCHANGED <<input, lexed, parsed, ast, source, shown, stdin, stdout>>

\* println!("= {}", result), and the loop starts over
PrintResult ==
    /\ pc = "done"
    /\ stdout' = Append(stdout, <<"=", " ">> \o ValueText(value.val))
    /\ pc' = "read"
    /\ UNCHANGED <<input, lexed, parsed, ast, value, source, shown, stdin>>

\* format!("{}", expr), the text then handed to tokenize
Show ==
    /\ pc = "show"
    /\ shown' = ExprText(source)
    /\ input' = shown'
    /\ pc' = "tokenize"
    /\ UNCHANGED <<lexed, parsed, ast, value, source, stdin, stdout>>

-----------------------------------------------------------------------------
(* Inputs *)

\* the sequences over S of length at most n
SeqsUpTo(S, n) == UNION {[1..k -> S] : k \in 0..n}

Two   == Int2Rat(2)
Three == Int2Rat(3)
Ten   == Int2Rat(10)

\* the tokens of the exhaustive parser inputs: a zero and a non-zero number,
\* an operator of every tier, both signs, the parentheses and a logical token
ParseAlphabet ==
    {NumberTok(Zero), NumberTok(One), Plus, Minus, Slash, Less,
     LParen, RParen, And}

ComparisonToks     == {Equal, NotEqual, Greater, GreaterEqual, Less, LessEqual}
AdditiveToks       == {Plus, Minus}
MultiplicativeToks == {Star, Slash}
TierToks           == {ComparisonToks, AdditiveToks, MultiplicativeToks}
BinaryToks         == UNION TierToks
LogicalToks        == {And, Or, Not}

\* the chain  1 ops[1] 2 ops[2] 3 ...  of the operators ops
RECURSIVE ChainOf(_, _)
ChainOf(ops, i) ==
    IF i > Len(ops) THEN <<NumberTok(Int2Rat(i))>>
    ELSE <<NumberTok(Int2Rat(i)), ops[i]>> \o ChainOf(ops, i + 1)

\* the chains of at most MaxChain operators of one tier
Chains ==
    {ChainOf(ops, 1) : ops \in UNION {SeqsUpTo(T, MaxChain) : T \in TierToks}}

\* the inputs the specification and the tests name
Tokens_1_Plus_2_Star_3 ==
    <<NumberTok(One), Plus, NumberTok(Two), Star, NumberTok(Three)>>
Tokens_Paren_1_Plus_2_Star_3 ==
    <<LParen, NumberTok(One), Plus, NumberTok(Two), RParen, Star, NumberTok(Three)>>
Tokens_Paren_1_Plus_2 == <<LParen, NumberTok(One), Plus, NumberTok(Two)>>
Tokens_10_Slash_0 == <<NumberTok(Ten), Slash, NumberTok(Zero)>>
Tokens_1_Plus_2_Not_3_Plus_1 ==
    <<NumberTok(One), Plus, NumberTok(Two), Not, NumberTok(Three), Plus,
      NumberTok(One)>>
Tokens_1_Plus_2_3 == <<NumberTok(One), Plus, NumberTok(Two), NumberTok(Three)>>
Tokens_Neg_2_Star_3 == <<Minus, NumberTok(Two), Star, NumberTok(Three)>>
Tokens_1_Minus_Neg_2 == <<NumberTok(One), Minus, Minus, NumberTok(Two)>>
Tokens_Neg_Neg_1 == <<Minus, Minus, NumberTok(One)>>
Tokens_Neg_Pos_1 == <<Minus, Plus, NumberTok(One)>>
Tokens_Neg_Paren_Neg_1 == <<Minus, LParen, Minus, NumberTok(One), RParen>>

NamedTokenInputs ==
    {Tokens_1_Plus_2_Star_3, Tokens_Paren_1_Plus_2_Star_3, Tokens_Paren_1_Plus_2,
     Tokens_10_Slash_0, Tokens_1_Plus_2_Not_3_Plus_1, Tokens_1_Plus_2_3,
     Tokens_Neg_2_Star_3, Tokens_1_Minus_Neg_2, Tokens_Neg_Neg_1,
     Tokens_Neg_Pos_1, Tokens_Neg_Paren_Neg_1}

\* ts with each of its And tokens replaced by the logical token t: the
\* parser has no arm for any of the three
WithLogical(ts, t) == [i \in 1..Len(ts) |-> IF ts[i] = And THEN t ELSE ts[i]]

-----------------------------------------------------------------------------
(* SpecParse: the parser and the evaluator on a token sequence: every       *)
(* sequence of at most MaxTokens tokens of ParseAlphabet (with And, Or or   *)
(* Not for its logical token), the chains and the named inputs              *)

InitParse ==
    /\ pc = "parse"
    /\ input = None
    /\ \/ \E k \in 0..MaxTokens : \E ts \in [1..k -> ParseAlphabet] :
             \E t \in LogicalToks :
                lexed = [ok |-> TRUE, tokens |-> WithLogical(ts, t)]
       \/ \E ts \in Chains \cup NamedTokenInputs :
             lexed = [ok |-> TRUE, tokens |-> ts]
    /\ parsed = None
    /\ ast = None
    /\ value = None
    /\ source = None
    /\ shown = None
    /\ stdin = <<>>
    /\ stdout = <<>>

NextParse == Parse \/ Eval

SpecParse == InitParse /\ [][NextParse]_vars

-----------------------------------------------------------------------------
(* Trees and token sequences, for the statements below *)

\* the precedence tier of a binary operator: a higher rank binds tighter
Rank(op) ==
    CASE op \in {"Eq", "Neq", "Gt", "Gte", "Lt", "Lte"} -> 1
      [] op \in {"Add", "Sub"} -> 2
      [] op \in {"Mul", "Div"} -> 3
      [] OTHER -> 0

\* the subtrees of a tree, itself included
RECURSIVE Subtrees(_)
Subtrees(node) ==
    {node} \cup
    CASE node.e = "Number"   -> {}
      [] node.e = "UnaryOp"  -> Subtrees(node.expr)
      [] node.e = "BinaryOp" -> Subtrees(node.left) \cup Subtrees(node.right)

BinaryNodes(node) == {n \in Subtrees(node) : n.e = "BinaryOp"}

OpToToken(op) == CHOOSE t \in BinaryToks \cup LogicalToks : TokenToBinaryOp(t) = op

\* the tokens of a tree read from left to right, without parentheses
RECURSIVE InOrder(_)
InOrder(node) ==
    CASE node.e = "Number"   -> <<NumberTok(node.n)>>
      [] node.e = "UnaryOp"  -> <<OpToToken(node.op)>> \o InOrder(node.expr)
      [] node.e = "BinaryOp" ->
            InOrder(node.left) \o <<OpToToken(node.op)>> \o InOrder(node.right)

\* the tree that folds the chain ts[1] ts[2] ... ts[k] from the left
RECURSIVE LeftFold(_, _)
LeftFold(ts, k) ==
    IF k = 1 THEN NumberExpr(ts[1].n)
    ELSE BinaryOp(LeftFold(ts, k - 2), TokenToBinaryOp(ts[k - 1]),
                  NumberExpr(ts[k].n))

ParseDone == parsed # None
ParsedOk  == ParseDone /\ parsed.ok
EvalDone  == value # None

\* the tokens parse_expr consumed
Consumed == SubSeq(lexed.tokens, 1, parsed.pos)

NoParens(ts) == \A i \in 1..Len(ts) : ts[i] \notin {LParen, RParen}

-----------------------------------------------------------------------------
(* C1: in every tree parse_expr returns for tokens without parentheses, the *)
(* operands of a node bind at least as tight as the node itself (a          *)
(* multiplicative node has no additive or comparison operand, an additive   *)
(* node no comparison operand) and the tree read from left to right is the  *)
(* consumed tokens; `1 + 2 * 3` parses to BinaryOp(1, Add, BinaryOp(2, Mul, *)
(* 3)) and evaluates to Number(7); `(1 + 2) * 3` evaluates to Number(9).    *)
C1_Precedence ==
    ParsedOk =>
        /\ NoParens(Consumed) =>
              /\ InOrder(parsed.node) = Consumed
              /\ \A n \in BinaryNodes(parsed.node) :
                    \A c \in {n.left, n.right} :
                        c.e = "BinaryOp" => Rank(c.op) >= Rank(n.op)
        /\ lexed.tokens = Tokens_1_Plus_2_Star_3 =>
              /\ parsed.node =
                    BinaryOp(NumberExpr(One), "Add",
                             BinaryOp(NumberExpr(Two), "Mul", NumberExpr(Three)))
              /\ EvalDone => value = EvalOk(NumberVal(Int2Rat(7)))
        /\ lexed.tokens = Tokens_Paren_1_Plus_2_Star_3 =>
              /\ parsed.node =
                    BinaryOp(BinaryOp(NumberExpr(One), "Add", NumberExpr(Two)),
                             "Mul", NumberExpr(Three))
              /\ EvalDone => value = EvalOk(NumberVal(Int2Rat(9)))

\* `1 + 2 * 3` has been parsed and evaluated
C1_Witness ==
    /\ pc = "done"
    /\ lexed.tokens = Tokens_1_Plus_2_Star_3
    /\ value.val = NumberVal(Int2Rat(7))

(* C2: in every tree parse_expr returns for tokens without parentheses, the *)
(* right operand of a binary node is never a binary node of the same tier   *)
(* (or a looser one); a chain `a op1 b op2 c ...` of operators of one tier  *)
(* parses, whole, to the tree folded from the left.                         *)
C2_LeftAssociative ==
    ParsedOk =>
        /\ NoParens(Consumed) =>
              \A n \in BinaryNodes(parsed.node) :
                  n.right.e = "BinaryOp" => Rank(n.right.op) > Rank(n.op)
        /\ lexed.tokens \in Chains =>
              /\ parsed.pos = Len(lexed.tokens)
              /\ parsed.node = LeftFold(lexed.tokens, Len(lexed.tokens))

\* a chain of two operators of one tier has been parsed
C2_Witness ==
    /\ ParsedOk
    /\ lexed.tokens \in Chains
    /\ Len(lexed.tokens) = 5
    /\ lexed.tokens[2] = Minus
    /\ parsed.node.left.e = "BinaryOp"

(* C5, as stated: parse_expr returns an error for every token sequence    *)
(* that contains an And, Or or Not token.                                   *)
C5_LogicalTokenRejected ==
    ParseDone /\ (\E i \in 1..Len(lexed.tokens) : lexed.tokens[i] \in LogicalToks)
        => ~parsed.ok

\* the index of the first And, Or or Not token
FirstLogical(ts) ==
    CHOOSE i \in 1..Len(ts) :
        /\ ts[i] \in LogicalToks
        /\ \A j \in 1..(i - 1) : ts[j] \notin LogicalToks

(* C5, amended: no production consumes an And, Or or Not token; parse_expr   *)
(* treats the first of them as the end of the input.  Its result is the     *)
(* result for the tokens before that token: an error when these are not an  *)
(* expression (so when the token stands first, or where an operand or a     *)
(* closing parenthesis is expected), and otherwise a success with the       *)
(* token and everything after it left unconsumed.                           *)
C5_LogicalTokenEndsParse ==
    ParseDone /\ (\E i \in 1..Len(lexed.tokens) : lexed.tokens[i] \in LogicalToks)
        => LET i == FirstLogical(lexed.tokens)
           IN  /\ parsed = parse_expr(SubSeq(lexed.tokens, 1, i - 1), 0)
               /\ parsed.ok => parsed.pos < i
               /\ i = 1 => parsed = Err(ErrIllegalExpr)
               /\ lexed.tokens = Tokens_1_Plus_2_Not_3_Plus_1 =>
                     parsed = ParseOk(BinaryOp(NumberExpr(One), "Add",
                                               NumberExpr(Two)), 2 + 1)

\* `( 1 || 1` has failed for the missing parenthesis
C5_Witness ==
    /\ ParseDone
    /\ lexed.tokens = <<LParen, NumberTok(One), Or, NumberTok(One)>>
    /\ parsed = Err(ErrUnmatched)

\* ts is an expression that parse_expr consumes whole
Complete(ts) ==
    LET res == parse_expr(ts, 0) IN res.ok /\ res.pos = Len(ts)

\* a token that can start an operand: a number, `(` or a sign
StartsOperand(t) == t.k = "Number" \/ t \in {LParen, Plus, Minus}

(* C6: when the tokens begin with a complete expression of k tokens and     *)
(* the next token is no binary operator, parse_expr succeeds, returns the   *)
(* tree of the k tokens and leaves the cursor at k, on the first            *)
(* unconsumed token.                                                        *)
C6_TrailingTokensIgnored ==
    ParseDone =>
        \A k \in 1..(Len(lexed.tokens) - 1) :
            LET head == SubSeq(lexed.tokens, 1, k)
            IN  Complete(head) /\ lexed.tokens[k + 1] \notin BinaryToks
                    => parsed = ParseOk(parse_expr(head, 0).node, k)

\* `1 + 2 3` has been parsed to 1 + 2 and evaluated to 3
C6_Witness ==
    /\ pc = "done"
    /\ lexed.tokens = Tokens_1_Plus_2_3
    /\ parsed.pos = 3
    /\ value = EvalOk(NumberVal(Three))

(* C7: when the tokens are `(`, a complete expression, and then no binary   *)
(* operator, the parse fails with the unmatched-parenthesis error unless    *)
(* the next token is `)`; with the `)` there (and no binary operator after  *)
(* it) the result is the enclosed tree and the cursor is after the `)`.     *)
(* A token that cannot start an operand, or the end of the input, at the    *)
(* start, after `(` or after a binary operator fails with the               *)
(* illegal-expression error, and so does a token that is neither a number   *)
(* nor `(`, or the end of the input, after a sign.                          *)
C7_ParenAndPrimaryErrors ==
    ParseDone =>
        LET ts == lexed.tokens
            n  == Len(ts)
        IN  /\ \A k \in 2..n :
                  LET inner == SubSeq(ts, 2, k)
                  IN  /\ ts[1] = LParen
                      /\ Complete(inner)
                      /\ (k < n => ts[k + 1] \notin BinaryToks)
                      => IF k < n /\ ts[k + 1] = RParen
                         THEN (k + 1 < n => ts[k + 2] \notin BinaryToks)
                                => parsed = ParseOk(parse_expr(inner, 0).node, k + 1)
                         ELSE parsed = Err(ErrUnmatched)
            /\ (n = 0 \/ (n > 0 /\ ~StartsOperand(ts[1])))
                  => parsed = Err(ErrIllegalExpr)
            /\ (n > 0 /\ ts[1] = LParen /\ (n = 1 \/ ~StartsOperand(ts[2])))
                  => parsed = Err(ErrIllegalExpr)
            /\ \A k \in 1..(n - 1) :
                  /\ Complete(SubSeq(ts, 1, k))
                  /\ ts[k + 1] \in BinaryToks
                  /\ (k + 1 = n \/ ~StartsOperand(ts[k + 2]))
                  => parsed = Err(ErrIllegalExpr)
            /\ (/\ n > 0
                /\ ts[1] \in {Plus, Minus}
                /\ (n = 1 \/ (ts[2].k # "Number" /\ ts[2] # LParen)))
                  => parsed = Err(ErrIllegalExpr)
            /\ ts = Tokens_Paren_1_Plus_2 => parsed = Err(ErrUnmatched)

\* `( 1 + 2` has failed for the missing parenthesis
C7_Witness ==
    /\ ParseDone
    /\ lexed.tokens = Tokens_Paren_1_Plus_2
    /\ parsed = Err(ErrUnmatched)

Signs == {Plus, Minus}

UnaryNodes(node) == {n \in Subtrees(node) : n.e = "UnaryOp"}

\* ts with its first k tokens, a sign and its primary, put in parentheses
SignParenthesized(ts, k) ==
    <<LParen>> \o SubSeq(ts, 1, k) \o <<RParen>> \o SubSeq(ts, k + 1, Len(ts))

\* the result res moved d tokens to the left
Shifted(res, d) == IF res.ok THEN ParseOk(res.node, res.pos - d) ELSE res

(* C12: a prefix sign takes exactly one primary as its operand and binds    *)
(* tighter than every binary operator.  In a tree parsed from tokens        *)
(* without parentheses every UnaryOp node is Add or Sub of a Number; when   *)
(* the tokens start with a sign and a primary, the result is the one for    *)
(* the tokens with that sign and primary put in parentheses; `s a op b`     *)
(* parses to BinaryOp(UnaryOp(s, a), op, b) and `a op s b` to               *)
(* BinaryOp(a, op, UnaryOp(s, b)) for every binary operator op; a sign      *)
(* followed by a sign, where an operand is expected, fails with the         *)
(* illegal-expression error; `- ( - 1 )` parses to                          *)
(* UnaryOp(Sub, UnaryOp(Sub, 1)).                                           *)
C12_SignBindsOnePrimary ==
    ParseDone =>
        LET ts == lexed.tokens
            n  == Len(ts)
        IN  /\ ParsedOk /\ NoParens(Consumed) =>
                  \A u \in UnaryNodes(parsed.node) :
                      u.op \in {"Add", "Sub"} /\ u.expr.e = "Number"
            /\ (n > 0 /\ ts[1] \in Signs) =>
                  LET p == parse_primary(ts, 1)
                  IN  IF ~p.ok THEN parsed = p
                      ELSE parsed =
                             Shifted(parse_expr(SignParenthesized(ts, p.pos), 0), 2)
            /\ (/\ n = 4
                /\ ts[1] \in Signs
                /\ ts[2].k = "Number"
                /\ ts[3] \in BinaryToks
                /\ ts[4].k = "Number")
                  => parsed =
                        ParseOk(BinaryOp(UnaryOp(TokenToBinaryOp(ts[1]),
                                                 NumberExpr(ts[2].n)),
                                         TokenToBinaryOp(ts[3]),
                                         NumberExpr(ts[4].n)), 4)
            /\ (/\ n = 4
                /\ ts[1].k = "Number"
                /\ ts[2] \in BinaryToks
                /\ ts[3] \in Signs
                /\ ts[4].k = "Number")
                  => parsed =
                        ParseOk(BinaryOp(NumberExpr(ts[1].n),
                                         TokenToBinaryOp(ts[2]),
                                         UnaryOp(TokenToBinaryOp(ts[3]),
                                                 NumberExpr(ts[4].n))), 4)
            /\ (n >= 2 /\ ts[1] \in Signs /\ ts[2] \in Signs)
                  => parsed = Err(ErrIllegalExpr)
            /\ (n >= 3 /\ ts[1] = LParen /\ ts[2] \in Signs /\ ts[3] \in Signs)
                  => parsed = Err(ErrIllegalExpr)
            /\ \A k \in 1..(n - 3) :
                  /\ Complete(SubSeq(ts, 1, k))
                  /\ ts[k + 1] \in BinaryToks
                  /\ ts[k + 2] \in Signs
                  /\ ts[k + 3] \in Signs
                  => parsed = Err(ErrIllegalExpr)
            /\ ts = Tokens_Neg_2_Star_3 =>
                  /\ parsed.ok
                  /\ parsed.node =
                        BinaryOp(UnaryOp("Sub", NumberExpr(Two)), "Mul",
                                 NumberExpr(Three))
                  /\ EvalDone => value = EvalOk(NumberVal(Int2Rat(-6)))
            /\ ts = Tokens_1_Minus_Neg_2 =>
                  /\ parsed.ok
                  /\ parsed.node =
                        BinaryOp(NumberExpr(One), "Sub",
                                 UnaryOp("Sub", NumberExpr(Two)))
            /\ ts \in {Tokens_Neg_Neg_1, Tokens_Neg_Pos_1} =>
                  parsed = Err(ErrIllegalExpr)
            /\ ts = Tokens_Neg_Paren_Neg_1 =>
                  parsed = ParseOk(UnaryOp("Sub", UnaryOp("Sub", NumberExpr(One))), 5)

\* `- 2 * 3` has been parsed to (-2) * 3 and evaluated to -6
C12_Witness ==
    /\ pc = "done"
    /\ lexed.tokens = Tokens_Neg_2_Star_3
    /\ parsed.node.left = UnaryOp("Sub", NumberExpr(Two))
    /\ value = EvalOk(NumberVal(Int2Rat(-6)))

\* the operators of a UnaryOp node and of a BinaryOp node that eval has an
\* arm for and the parser has a production for
ParserUnaryOps  == {"Add", "Sub"}
ParserBinaryOps ==
    {"Add", "Sub", "Mul", "Div", "Eq", "Neq", "Gt", "Gte", "Lt", "Lte"}

(* C14: every tree a successful parse_expr returns has only UnaryOp nodes   *)
(* with operator Add or Sub and BinaryOp nodes with operator Add, Sub, Mul, *)
(* Div, Eq, Neq, Gt, Gte, Lt or Lte; eval of such a tree returns a Value or *)
(* fails with the division-by-zero error, never with the                    *)
(* unsupported-operator errors.                                             *)
C14_ParsedTreesSupported ==
    ParsedOk =>
        /\ \A n \in Subtrees(parsed.node) :
              /\ n.e = "UnaryOp"  => n.op \in ParserUnaryOps
              /\ n.e = "BinaryOp" => n.op \in ParserBinaryOps
        /\ ast = parsed.node
        /\ EvalDone =>
              /\ value = eval(parsed.node)
              /\ value.ok \/ value = Err(ErrDivByZero)
              /\ value \notin {Err(ErrUnsupportedUnary), Err(ErrUnsupportedBinary)}

\* a parsed tree with a sign and a division has failed with division by zero
C14_Witness ==
    /\ pc = "failed"
    /\ ParsedOk
    /\ UnaryNodes(parsed.node) # {}
    /\ \E n \in BinaryNodes(parsed.node) : n.op = "Div"
    /\ value = Err(ErrDivByZero)

-----------------------------------------------------------------------------
(* SpecLex: tokenize on a text of operator characters, spaces and digits *)

LexChars == {"&", "|", "=", "!", "<", ">", " ", "1"}

\* the text of tests::test_bool_and_or_character
Text_BoolAndOr == <<"&", "&", "!", "|", "|", "!", "=", "!", "!", "=">>

\* every text of at most MaxChars characters of LexChars, and the test's
InitLex ==
    /\ pc = "tokenize"
    /\ \/ \E k \in 0..MaxChars : input \in [1..k -> LexChars]
       \/ input = Text_BoolAndOr
    /\ lexed = None
    /\ parsed = None
    /\ ast = None
    /\ value = None
    /\ source = None
    /\ shown = None
    /\ stdin = <<>>
    /\ stdout = <<>>

NextLex == Tokenize

SpecLex == InitLex /\ [][NextLex]_vars

LexDone == lexed # None

\* the texts of the tokens that one operator character or a pair makes
PairTexts   == {<<"&", "&">>, <<"|", "|">>, <<"=", "=">>, <<"!", "=">>,
                <<"<", "=">>, <<">", "=">>}
SingleTexts == {<<"!">>, <<"<">>, <<">">>}

\* the token of the piece p of a text
PieceToken(p) ==
    IF p[1] = "1" THEN NumberTok(Int2Rat(DigitsValue(p, 0)))
    ELSE CHOOSE t \in BinaryToks \cup LogicalToks : TokenText(t) = p

\* the pieces of the text s cut at the places of B, from place i on
RECURSIVE Pieces(_, _, _)
Pieces(s, B, i) ==
    IF i > Len(s) THEN <<>>
    ELSE LET ends == {j \in i..Len(s) : j = Len(s) \/ (j + 1) \in B}
             j    == CHOOSE x \in ends : \A y \in ends : x <= y
         IN  <<SubSeq(s, i, j)>> \o Pieces(s, B, j + 1)

\* a piece p of s that ends at place j is a piece a left-to-right reading
\* with one character of lookahead makes: a pair; `!`, `<` or `>` with no
\* `=` after it; a space; or a run of digits with no digit after it
GoodPiece(s, p, j) ==
    LET after == IF j < Len(s) THEN s[j + 1] ELSE NoChar
    IN  \/ p \in PairTexts
        \/ p \in SingleTexts /\ after # "="
        \/ p = <<" ">>
        \/ (\A i \in 1..Len(p) : p[i] = "1") /\ after # "1"

\* the cut B splits s into good pieces
RECURSIVE GoodFrom(_, _, _)
GoodFrom(s, B, i) ==
    IF i > Len(s) THEN TRUE
    ELSE LET p == Head(Pieces(s, B, i))
         IN  GoodPiece(s, p, i + Len(p) - 1) /\ GoodFrom(s, B, i + Len(p))

GoodCuts(s) == {B \in SUBSET (2..Len(s)) : GoodFrom(s, B, 1)}

\* the tokens of the pieces that are not spaces
RECURSIVE PieceTokens(_)
PieceTokens(ps) ==
    IF ps = <<>> THEN <<>>
    ELSE IF Head(ps) = <<" ">> THEN PieceTokens(Tail(ps))
    ELSE <<PieceToken(Head(ps))>> \o PieceTokens(Tail(ps))

(* C8: tokenize succeeds exactly on the texts that split, left to right,    *)
(* into pairs `&&` `||` `==` `!=` `<=` `>=`, single `!` `<` `>` not         *)
(* followed by `=`, spaces and digit runs, and then returns the tokens of   *)
(* these pieces in order; a text with a `&`, `|` or `=` outside such a pair *)
(* fails with no tokens; `&&!||!=!!=` yields And, Not, Or, NotEqual, Not,   *)
(* NotEqual.                                                                *)
C8_OneCharLookahead ==
    LexDone =>
        LET cuts == GoodCuts(input)
        IN
        /\ lexed.ok <=> cuts # {}
        /\ lexed.ok =>
              \A B \in cuts : lexed.tokens = PieceTokens(Pieces(input, B, 1))
        /\ ~lexed.ok =>
              /\ DOMAIN lexed = {"ok", "err"}
              /\ lexed.err \in {ErrBadBoolOp, ErrSingleEq}
        /\ input = Text_BoolAndOr =>
              lexed = [ok |-> TRUE,
                       tokens |-> <<And, Not, Or, NotEqual, Not, NotEqual>>]

\* `&&!||!=!!=` has been tokenized
C8_Witness ==
    /\ LexDone
    /\ input = Text_BoolAndOr
    /\ lexed.ok
    /\ Len(lexed.tokens) = 6

-----------------------------------------------------------------------------
(* SpecEval: the evaluator on a tree built directly, as the tests of eval.rs *)
(* build theirs                                                             *)

Half(k) == Rat(k, 2)

NumberLiterals == {Half(k) : k \in -MaxHalves..MaxHalves}

\* operands that evaluate to Bool(true) and to Bool(false), and operands that
\* fail with each of the three errors of eval
TrueExpr   == BinaryOp(NumberExpr(One), "Eq", NumberExpr(One))
FalseExpr  == BinaryOp(NumberExpr(One), "Neq", NumberExpr(One))
DivZeroExpr     == BinaryOp(NumberExpr(One), "Div", NumberExpr(Zero))
BadUnaryExpr    == UnaryOp("Mul", NumberExpr(One))
BadBinaryExpr   == BinaryOp(NumberExpr(One), "Not", NumberExpr(One))

Operands ==
    {NumberExpr(n) : n \in NumberLiterals}
        \cup {TrueExpr, FalseExpr, DivZeroExpr, BadUnaryExpr, BadBinaryExpr}

EvalInputs ==
    Operands
        \cup {UnaryOp(op, e) : op \in BinaryOps, e \in Operands}
        \cup {BinaryOp(l, op, r) : l \in Operands, op \in BinaryOps, r \in Operands}

InitEval ==
    /\ pc = "eval"
    /\ input = None
    /\ lexed = None
    /\ parsed = None
    /\ ast \in EvalInputs
    /\ value = None
    /\ source = None
    /\ shown = None
    /\ stdin = <<>>
    /\ stdout = <<>>

NextEval == Eval

SpecEval == InitEval /\ [][NextEval]_vars

\* the operands of the BinaryOp node handed to eval, evaluated
LeftResult  == eval(ast.left)
RightResult == eval(ast.right)

\* eval has run on a BinaryOp node with operator op whose operands both
\* evaluate to a Value
BinaryEvaluated(op) ==
    /\ EvalDone
    /\ ast.e = "BinaryOp"
    /\ ast.op = op
    /\ LeftResult.ok
    /\ RightResult.ok

\* a Value as a number, a Bool counted as 1 or 0
AsNumber(val) ==
    IF val.v = "Number" THEN val.n ELSE IF val.b THEN Int2Rat(1) ELSE Int2Rat(0)

\* a Number is truthy iff it is strictly greater than 0, a Bool iff it is true
Truthy(val) == IF val.v = "Number" THEN val.n.num > 0 ELSE val.b

(* C3: when both operands of a Div node evaluate to a Value, eval fails     *)
(* with the division-by-zero error exactly when the right value is          *)
(* Number(0) or Bool(false); otherwise it returns Number(q) with            *)
(* q * r = l, Bool operands counted as 1 or 0.                              *)
C3_DivisionByZero ==
    BinaryEvaluated("Div") =>
        LET l == LeftResult.val
            r == RightResult.val
        IN  IF r \in {NumberVal(Zero), BoolVal(FALSE)}
            THEN value = Err(ErrDivByZero)
            ELSE /\ value.ok
                 /\ value.val.v = "Number"
                 /\ value.val.n.den > 0
                 /\ RMul(value.val.n, AsNumber(r)) = AsNumber(l)

\* a number has been divided by Bool(false)
C3_Witness ==
    /\ BinaryEvaluated("Div")
    /\ LeftResult.val = NumberVal(One)
    /\ RightResult.val = BoolVal(FALSE)
    /\ value = Err(ErrDivByZero)

(* C9: when both operands evaluate to a Value, eval of an And node is       *)
(* Bool(truthy(l) and truthy(r)) and eval of an Or node is Bool(truthy(l)   *)
(* or truthy(r)), a Number truthy iff strictly greater than 0 and a Bool    *)
(* iff true, for all four combinations of operand types.                    *)
C9_Truthiness ==
    /\ BinaryEvaluated("And") =>
          value = EvalOk(BoolVal(Truthy(LeftResult.val) /\ Truthy(RightResult.val)))
    /\ BinaryEvaluated("Or") =>
          value = EvalOk(BoolVal(Truthy(LeftResult.val) \/ Truthy(RightResult.val)))

\* a negative number has been And-ed with Bool(true)
C9_Witness ==
    /\ BinaryEvaluated("And")
    /\ LeftResult.val = NumberVal(Int2Rat(-1))
    /\ RightResult.val = BoolVal(TRUE)
    /\ value = EvalOk(BoolVal(FALSE))

(* C13: eval of a BinaryOp node evaluates the left operand, then the right  *)
(* one, and only then looks at the operator, for every operator: when the   *)
(* left operand fails the result is its error, whatever the right operand   *)
(* does; when the left one gives a Value and the right one fails the result *)
(* is the right one's error, also for And with a falsy left value and Or    *)
(* with a truthy one; with both operands giving a Value the result is that  *)
(* of the operator, which for Not is the unsupported-binary-operator error. *)
C13_OperandsBeforeOperator ==
    EvalDone /\ ast.e = "BinaryOp" =>
        /\ ~LeftResult.ok => value = LeftResult
        /\ LeftResult.ok /\ ~RightResult.ok => value = RightResult
        /\ LeftResult.ok /\ RightResult.ok =>
              /\ value = EvalBinary(LeftResult.val, ast.op, RightResult.val)
              /\ ast.op = "Not" => value = Err(ErrUnsupportedBinary)
        /\ (ast.op = "Not" /\ value = Err(ErrUnsupportedBinary)) =>
              \/ LeftResult.ok /\ RightResult.ok
              \/ LeftResult = Err(ErrUnsupportedBinary)
              \/ LeftResult.ok /\ RightResult = Err(ErrUnsupportedBinary)

\* an And node with a falsy left value has failed with the error of its
\* right operand
C13_Witness ==
    /\ EvalDone
    /\ ast.e = "BinaryOp"
    /\ ast.op = "And"
    /\ LeftResult = EvalOk(BoolVal(FALSE))
    /\ RightResult = Err(ErrDivByZero)
    /\ value = Err(ErrDivByZero)

\* the comparison op made on two numbers
NumberCompare(op, a, b) ==
    CASE op = "Eq"  -> a = b
      [] op = "Neq" -> a # b
      [] op = "Gt"  -> RLt(b, a)
      [] op = "Gte" -> RLe(b, a)
      [] op = "Lt"  -> RLt(a, b)
      [] op = "Lte" -> RLe(a, b)

(* C4: for Eq, Neq, Gt, Gte, Lt, Lte applied to one Number and one Bool    *)
(* value, in either order, eval gives the comparison of the two numbers    *)
(* after the Bool is converted to 1 or 0.                                   *)
C4_CoercedComparison ==
    \A op \in {"Eq", "Neq", "Gt", "Gte", "Lt", "Lte"} :
        BinaryEvaluated(op) /\ LeftResult.val.v # RightResult.val.v
            => value = EvalOk(BoolVal(NumberCompare(op, AsNumber(LeftResult.val),
                                                    AsNumber(RightResult.val))))

-----------------------------------------------------------------------------
(* SpecRoundTrip: a tree is formatted, and the text goes through tokenize, *)
(* parse_expr and eval                                                      *)

\* every operator of the tree stands where the data model allows it: Add,
\* Sub or Not in a UnaryOp node, any operator but Not in a BinaryOp node
RECURSIVE Legal(_)
Legal(expr) ==
    CASE expr.e = "Number"   -> TRUE
      [] expr.e = "UnaryOp"  -> expr.op \in {"Add", "Sub", "Not"} /\ Legal(expr.expr)
      [] expr.e = "BinaryOp" ->
            expr.op # "Not" /\ Legal(expr.left) /\ Legal(expr.right)

RoundTripInputs == {t \in EvalInputs : Legal(t)}

InitRoundTrip ==
    /\ pc = "show"
    /\ input = None
    /\ lexed = None
    /\ parsed = None
    /\ ast = None
    /\ value = None
    /\ source \in RoundTripInputs
    /\ shown = None
    /\ stdin = <<>>
    /\ stdout = <<>>

NextRoundTrip == Show \/ Tokenize \/ Parse \/ Eval

SpecRoundTrip == InitRoundTrip /\ [][NextRoundTrip]_vars

\* the pipeline has ended, with a Value or with the error of a stage
RoundTripEnded == pc \in {"done", "failed"}

(* C10: for every Expr tree, the Display text tokenizes and parses, and     *)
(* eval gives the same result (the same Value or the same error) for the    *)
(* parsed tree as for the tree formatted.                                   *)
C10_DisplayRoundTrip ==
    RoundTripEnded =>
        /\ lexed.ok
        /\ parsed.ok
        /\ value = eval(source)

-----------------------------------------------------------------------------
(* SpecMain: main on an input of at most MaxLines lines, each of them an   *)
(* expression that evaluates or one that fails in one of the three stages  *)

\* the text s as a line of the input
Line(s) == s \o <<"\n">>

Line_1_Plus_1  == Line(<<"1", "+", "1">>)
Line_2_Less_3  == Line(<<"2", "<", "3">>)
Line_Ampersand == Line(<<"1", "&", "2">>)
Line_Paren_1   == Line(<<"(", "1">>)
Line_1_Slash_0 == Line(<<"1", "/", "0">>)

ValidLines == {Line_1_Plus_1, Line_2_Less_3}
BadLines   == {Line_Ampersand, Line_Paren_1, Line_1_Slash_0}
MainLines  == ValidLines \cup BadLines

InitMain ==
    /\ pc = "read"
    /\ input = None
    /\ lexed = None
    /\ parsed = None
    /\ ast = None
    /\ value = None
    /\ source = None
    /\ shown = None
    /\ \E k \in 0..MaxLines : stdin \in [1..k -> MainLines]
    /\ stdout = <<>>

NextMain == ReadLine \/ Tokenize \/ Parse \/ Eval \/ PrintResult

SpecMain == InitMain /\ [][NextMain]_vars

\* main has returned the error of a stage
MainEnded == pc = "failed"

\* the three stages give a Value for the line
Evaluates(line) ==
    LET tokens == tokenize(line)
    IN  /\ tokens.ok
        /\ LET node == parse_expr(tokens.tokens, 0)
           IN  node.ok /\ eval(node.node).ok

(* C11: the error of a stage for one input line does not end the process:  *)
(* the loop goes on to prompt for, read and process the next line, so main *)
(* never ends with a line unread that the three stages evaluate.           *)
C11_LoopSurvivesError ==
    MainEnded => \A i \in 1..Len(stdin) : ~Evaluates(stdin[i])

=============================================================================
